---- MODULE Spec2Model ----
(***************************************************************************)
(* Model of the gta3sc bytecode generator (src/src/codegen.hpp):           *)
(* compiled_size, compute_labels, CodeGenerator::generate, the per-variant *)
(* generate_code overloads and the SCM header generator.                   *)
(*                                                                         *)
(* Bytes are numbers 0..255; a buffer is the sequence of the bytes written *)
(* so far (every emplace_* writes at the cursor and advances it).          *)
(***************************************************************************)
EXTENDS Integers, Sequences, FiniteSets, TLC

VARIABLES opt, scripts, labels, compiled, header,
          pc, pos, bytecode, offset, max_offset,
          hpc, hbytecode, hoffset, hmax_offset, gotos,
          errors, reads

vars == <<opt, scripts, labels, compiled, header,
          pc, pos, bytecode, offset, max_offset,
          hpc, hbytecode, hoffset, hmax_offset, gotos,
          errors, reads>>

(***************************************************************************)
(* Bounds of the model.                                                    *)
(***************************************************************************)
MaxArgs == 2
MaxIRLen == 3
MaxModels == 1
MaxGlobalsExtra == 1

\* std::optional without a value (Script::size, Script::offset, Label::local_offset)
nullopt == -1

ScriptIds == {1, 2}
LabelIds == {1, 2, 3}
\* Label::script, the owning script of each label
LabelScript == <<1, 1, 2>>

ScriptTypes == {"Main", "MainExtension", "Subscript", "Mission", "StreamedScript"}
Versions == {"Liberty", "Miami", "SanAndreas"}

(***************************************************************************)
(* Small helpers on sequences.                                             *)
(***************************************************************************)
Repeat(n, v) == [i \in 1..n |-> v]

Zeros(n) == Repeat(n, 0)

RECURSIVE SeqsUpTo(_, _)
SeqsUpTo(S, n) ==
    IF n = 0 THEN {<<>>}
    ELSE LET shorter == SeqsUpTo(S, n - 1)
         IN  shorter \cup {Append(q, x) : q \in shorter, x \in S}

(***************************************************************************)
(* CodeGeneratorBase: the emplacers, as the bytes they append.             *)
(***************************************************************************)
emplace_u8(value) == <<value % 256>>

emplace_u16(value) == emplace_u8(value % 256) \o emplace_u8((value \div 256) % 256)

emplace_u32(value) ==
    emplace_u8(value % 256) \o emplace_u8((value \div 256) % 256)
        \o emplace_u8((value \div 65536) % 256) \o emplace_u8((value \div 16777216) % 256)

\* reinterpret_cast of the signed value: two's complement (% is the
\* non-negative remainder, \div rounds down)
emplace_i8(value) == emplace_u8(value % 256)

emplace_i16(value) == emplace_u16(value % 65536)

emplace_i32(value) == emplace_u32(value)

\* std::strncpy(dst, data, count): the first count chars of data, then
\* zeros up to count
emplace_chars(count, data) ==
    IF Len(data) >= count THEN SubSeq(data, 1, count)
    ELSE data \o Zeros(count - Len(data))

emplace_bytes(count, bytes) == SubSeq(bytes, 1, count)

emplace_fill(count, val) == Repeat(count, val)

(***************************************************************************)
(* The intermediate representation (CompiledData.data and ArgVariant).     *)
(* A float is its IEEE-754 binary32 fields: sign s, biased exponent e and  *)
(* mantissa m.                                                             *)
(***************************************************************************)
EOAL == [kind |-> "EOAL"]
Int8(v) == [kind |-> "int8", value |-> v]
Int16(v) == [kind |-> "int16", value |-> v]
Int32(v) == [kind |-> "int32", value |-> v]
Float(s, e, m) == [kind |-> "float", fvalue |-> [s |-> s, e |-> e, m |-> m]]
LabelRef(l) == [kind |-> "Label", label |-> l]
CompiledVar(v, i) == [kind |-> "Var", var |-> v, index |-> i]
CompiledString(t, str) == [kind |-> "String", type |-> t, storage |-> str]
CompiledCommand(id, args) == [kind |-> "Command", id |-> id, args |-> args]
CompiledLabelDef(l) == [kind |-> "LabelDef", label |-> l]
CompiledHex(data) == [kind |-> "Hex", data |-> data]

\* optional<variant<int32_t, shared_ptr<Var>>> of CompiledVar::index
NoIndex == [t |-> "none"]
IntIndex(i) == [t |-> "int", value |-> i]
VarIndex(v) == [t |-> "var", var |-> v]

Var(g, t, i, o, c) == [global |-> g, type |-> t, index |-> i, goffset |-> o, count |-> c]

\* Var::offset(), the global byte offset of a variable
VarOffset(v) == v.goffset

\* static_cast<uint8_t>(VarType)
VarTypeCode(t) ==
    CASE t = "Int" -> 0
      [] t = "Float" -> 1
      [] t = "TextLabel" -> 2
      [] t = "TextLabel16" -> 3

\* f == 0.0f: both zeros compare equal to 0.0f
IsZeroFloat(f) == f.e = 0 /\ f.m = 0

RECURSIVE Pow2(_)
Pow2(n) == IF n = 0 THEN 1 ELSE 2 * Pow2(n - 1)

\* |value * 16.0f| rounded toward zero, for an exponent below 146
\* (|value * 16| < 2^23); a denormal gives 0
HalfMagnitude(f) ==
    IF f.e = 0 \/ 146 - f.e > 24 THEN 0
    ELSE (8388608 + f.m) \div Pow2(146 - f.e)

\* the float-to-int16 conversion is defined only when the truncated value
\* is representable
HalfDefined(f) ==
    /\ f.e < 146
    /\ HalfMagnitude(f) <= (IF f.s = 1 THEN 32768 ELSE 32767)

\* what an undefined float-to-int16 conversion may leave in the int16
UndefinedInt16 == {-32768, -1, 0, 32767}

\* static_cast<int16_t>(value * 16.0f)
HalfFloat(f) ==
    IF HalfDefined(f)
    THEN {IF f.s = 1 THEN 0 - HalfMagnitude(f) ELSE HalfMagnitude(f)}
    ELSE UndefinedInt16

\* reinterpret_cast<const uint32_t&>(value), little-endian
FloatBits(f) ==
    <<f.m % 256, (f.m \div 256) % 256,
      ((f.m \div 65536) % 128) + 128 * (f.e % 2), (f.e \div 2) + 128 * f.s>>

(***************************************************************************)
(* compiled_size                                                           *)
(***************************************************************************)
compiled_size_EOAL == 1

compiled_size_int8 == 1 + 1

compiled_size_int16 == 1 + 2

compiled_size_int32 == 1 + 4

compiled_size_float_nozero(f) ==
    IF opt.use_half_float THEN 1 + 2 ELSE 1 + 4

compiled_size_float(f) ==
    IF opt.optimize_zero_floats /\ IsZeroFloat(f) THEN 1 + 1
    ELSE IF opt.use_half_float THEN 1 + 2
    ELSE 1 + 4

compiled_size_Label == 1 + 4

compiled_size_Var(v) ==
    IF v.index = NoIndex \/ v.index.t = "int" THEN 1 + 2
    ELSE 1 + 2 * 2 + 1 * 2

compiled_size_String(s) ==
    CASE s.type = "TextLabel8" -> (IF opt.has_text_label_prefix THEN 1 ELSE 0) + 8
      [] s.type = "TextLabel16" -> 1 + 16
      [] s.type = "StringVar" -> 1 + 1 + Len(s.storage)
      [] s.type = "String128" -> 128

compiled_size_Arg(a) ==
    CASE a.kind = "EOAL" -> compiled_size_EOAL
      [] a.kind = "int8" -> compiled_size_int8
      [] a.kind = "int16" -> compiled_size_int16
      [] a.kind = "int32" -> compiled_size_int32
      [] a.kind = "float" -> compiled_size_float(a.fvalue)
      [] a.kind = "Label" -> compiled_size_Label
      [] a.kind = "Var" -> compiled_size_Var(a)
      [] a.kind = "String" -> compiled_size_String(a)

RECURSIVE SumArgSizes(_)
SumArgSizes(args) ==
    IF args = <<>> THEN 0
    ELSE compiled_size_Arg(Head(args)) + SumArgSizes(Tail(args))

compiled_size_Command_noopcode(cmd) == SumArgSizes(cmd.args)

compiled_size_Command(cmd) == 2 + SumArgSizes(cmd.args)

\* CompiledLabelDef::compiled_size(): a label definition has no bytes
compiled_size_LabelDef == 0

\* CompiledHex::compiled_size(): the raw bytes
compiled_size_Hex(hex) == Len(hex.data)

compiled_size(data) ==
    CASE data.kind = "Command" -> compiled_size_Command(data)
      [] data.kind = "LabelDef" -> compiled_size_LabelDef
      [] data.kind = "Hex" -> compiled_size_Hex(data)
      [] OTHER -> compiled_size_Arg(data)

(***************************************************************************)
(* generate_code: each overload as the set of byte strings it may append   *)
(* (one string, except where the conversion of a float is undefined).      *)
(***************************************************************************)
generate_code_EOAL == {emplace_u8(0)}

generate_code_int8(value) == {emplace_u8(4) \o emplace_i8(value)}

generate_code_int16(value) == {emplace_u8(5) \o emplace_i16(value)}

generate_code_int32(value) == {emplace_u8(1) \o emplace_i32(value)}

generate_code_float_halffirst(value) ==
    IF opt.use_half_float
    THEN {emplace_u8(6) \o emplace_i16(h) : h \in HalfFloat(value)}
    ELSE IF opt.optimize_zero_floats /\ IsZeroFloat(value)
    THEN generate_code_int8(0)
    ELSE {emplace_u8(6) \o FloatBits(value)}

generate_code_float(value) ==
    IF opt.optimize_zero_floats /\ IsZeroFloat(value)
    THEN generate_code_int8(0)
    ELSE IF opt.use_half_float
    THEN {emplace_u8(6) \o emplace_i16(h) : h \in HalfFloat(value)}
    ELSE {emplace_u8(6) \o FloatBits(value)}

\* Label::offset(): the owning script's offset in the image plus the
\* label's local offset
LabelOffset(l) == scripts[labels[l].script].offset + labels[l].local_offset

IsLocalScript(s) == scripts[s].type \in {"Mission", "StreamedScript"}

\* the lambda emplace_local_offset: the bytes, and whether it reports
\* "reference to zero offset"
emplace_local_offset(off) == emplace_i32(0 - off)

emplace_local_offset_errors(off) == IF off = 0 THEN 1 ELSE 0

generate_code_Label_typefirst(l) ==
    {emplace_u8(1) \o
        (IF IsLocalScript(labels[l].script)
         THEN emplace_local_offset(labels[l].local_offset)
         ELSE IF opt.use_local_offsets
         THEN emplace_local_offset(LabelOffset(l))
         ELSE emplace_i32(LabelOffset(l)))}

generate_code_Label_localopt(l) ==
    {emplace_u8(1) \o
        (IF opt.use_local_offsets \/ IsLocalScript(labels[l].script)
         THEN emplace_local_offset(labels[l].local_offset)
         ELSE emplace_i32(LabelOffset(l)))}

generate_code_Label(l) ==
    {emplace_u8(1) \o
        (IF opt.use_local_offsets
         THEN emplace_local_offset(LabelOffset(l))
         ELSE IF IsLocalScript(labels[l].script)
         THEN emplace_local_offset(labels[l].local_offset)
         ELSE emplace_i32(LabelOffset(l)))}

\* the diagnostics program.error(nocontext, ...) receives while a reference
\* to label l is generated
generate_code_Label_errors_never(l) == 0

generate_code_Label_errors(l) ==
    IF opt.use_local_offsets THEN emplace_local_offset_errors(LabelOffset(l))
    ELSE IF IsLocalScript(labels[l].script)
    THEN emplace_local_offset_errors(labels[l].local_offset)
    ELSE 0

\* assert(label_ptr->script == codegen.script), reached in the second mode only
generate_code_Label_assert(l, s) ==
    \/ opt.use_local_offsets
    \/ ~IsLocalScript(labels[l].script)
    \/ labels[l].script = s

generate_code_String(str) ==
    CASE str.type = "TextLabel8" ->
            {(IF opt.has_text_label_prefix THEN emplace_u8(9) ELSE <<>>)
                \o emplace_chars(8, str.storage)}
      [] str.type = "TextLabel16" ->
            {emplace_u8(15) \o emplace_chars(16, str.storage)}
      [] str.type = "StringVar" ->
            {emplace_u8(14) \o emplace_u8(Len(str.storage))
                \o emplace_chars(Len(str.storage), str.storage)}
      [] str.type = "String128" ->
            {emplace_chars(128, str.storage)}

\* the switch on v.var->type choosing the tag
VarTag(v, numeric, text8, text16) ==
    CASE v.type \in {"Int", "Float"} -> (IF v.global THEN numeric ELSE numeric + 1)
      [] v.type = "TextLabel" -> (IF v.global THEN text8 ELSE text8 + 1)
      [] v.type = "TextLabel16" -> (IF v.global THEN text16 ELSE text16 + 1)

generate_code_Var(v) ==
    IF v.index = NoIndex
    THEN {emplace_u8(VarTag(v.var, 2, 10, 16))
            \o emplace_u16(IF v.var.global THEN VarOffset(v.var) ELSE v.var.index)}
    ELSE IF v.index.t = "int"
    THEN {emplace_u8(VarTag(v.var, 2, 10, 16))
            \o emplace_u16(IF v.var.global
                           THEN VarOffset(v.var) + v.index.value * 4
                           ELSE v.var.index + v.index.value)}
    ELSE {emplace_u8(VarTag(v.var, 7, 12, 18))
            \o emplace_u16(IF v.var.global THEN VarOffset(v.var) ELSE v.var.index)
            \o emplace_u16(IF v.index.var.global THEN VarOffset(v.index.var)
                           ELSE v.index.var.index)
            \o emplace_u8(v.var.count)
            \o emplace_u8((VarTypeCode(v.var.type) % 128)
                          + (IF v.index.var.global THEN 128 ELSE 0))}

generate_code_Arg(a) ==
    CASE a.kind = "EOAL" -> generate_code_EOAL
      [] a.kind = "int8" -> generate_code_int8(a.value)
      [] a.kind = "int16" -> generate_code_int16(a.value)
      [] a.kind = "int32" -> generate_code_int32(a.value)
      [] a.kind = "float" -> generate_code_float(a.fvalue)
      [] a.kind = "Label" -> generate_code_Label(a.label)
      [] a.kind = "Var" -> generate_code_Var(a)
      [] a.kind = "String" -> generate_code_String(a)

RECURSIVE generate_code_Args(_)
generate_code_Args(args) ==
    IF args = <<>> THEN {<<>>}
    ELSE {a \o r : a \in generate_code_Arg(Head(args)),
                   r \in generate_code_Args(Tail(args))}

generate_code_Command(ccmd) ==
    {emplace_u16(ccmd.id) \o r : r \in generate_code_Args(ccmd.args)}

generate_code_LabelDef == {<<>>}

generate_code_Hex(hex) == {emplace_bytes(Len(hex.data), hex.data)}

generate_code(data) ==
    CASE data.kind = "Command" -> generate_code_Command(data)
      [] data.kind = "LabelDef" -> generate_code_LabelDef
      [] data.kind = "Hex" -> generate_code_Hex(data)
      [] OTHER -> generate_code_Arg(data)

\* the label references a node holds, in emission order
RECURSIVE LabelArgs(_)
LabelArgs(args) ==
    IF args = <<>> THEN <<>>
    ELSE (IF Head(args).kind = "Label" THEN <<Head(args).label>> ELSE <<>>)
            \o LabelArgs(Tail(args))

LabelsOf(data) ==
    CASE data.kind = "Label" -> <<data.label>>
      [] data.kind = "Command" -> LabelArgs(data.args)
      [] OTHER -> <<>>

(***************************************************************************)
(* CodeGenerator::compute_labels                                           *)
(***************************************************************************)
\* one turn of the loop over this->compiled: st is [labels, offset]
compute_labels_op_skip(st, op) ==
    IF op.kind = "LabelDef" THEN st
    ELSE [st EXCEPT !.offset = @ + compiled_size(op)]

compute_labels_op_after(st, op) ==
    IF op.kind = "LabelDef"
    THEN [st EXCEPT !.labels[op.label].local_offset = st.offset + 1]
    ELSE [st EXCEPT !.offset = @ + compiled_size(op)]

compute_labels_op(st, op) ==
    IF op.kind = "LabelDef"
    THEN [st EXCEPT !.labels[op.label].local_offset = st.offset]
    ELSE [st EXCEPT !.offset = @ + compiled_size(op)]

RECURSIVE compute_labels_loop(_, _)
compute_labels_loop(st, ops) ==
    IF ops = <<>> THEN st
    ELSE compute_labels_loop(compute_labels_op(st, Head(ops)), Tail(ops))

\* the labels after the call, and the returned size
compute_labels(s) ==
    compute_labels_loop([labels |-> labels, offset |-> 0], compiled[s])

\* Phase R is serial over the scripts, in their order
PhaseRDone == \A s \in ScriptIds : pc[s] # "constructed"

\* one script of Phase R: compute_labels, whose result the driver stores
\* in Script::size
ResolveScript(s) ==
    /\ pc[s] = "constructed"
    /\ \A t \in ScriptIds : t < s => pc[t] # "constructed"
    /\ labels' = compute_labels(s).labels
    /\ scripts' = [scripts EXCEPT ![s].size = compute_labels(s).offset]
    /\ pc' = [pc EXCEPT ![s] = "resolved"]
    /\ UNCHANGED <<opt, compiled, header, pos, bytecode, offset, max_offset,
                   hpc, hbytecode, hoffset, hmax_offset, gotos, errors, reads>>

(***************************************************************************)
(* CodeGenerator::generate                                                 *)
(***************************************************************************)
\* Phase E starts only once Phase R is over
PhaseEOpen == PhaseRDone

\* setup_buffer(script->size.value()), up to the first turn of the loop
GenerateBegin(s) ==
    /\ pc[s] = "resolved"
    /\ PhaseEOpen
    /\ offset' = [offset EXCEPT ![s] = 0]
    /\ max_offset' = [max_offset EXCEPT ![s] = scripts[s].size]
    /\ bytecode' = [bytecode EXCEPT ![s] = <<>>]
    /\ pos' = [pos EXCEPT ![s] = 1]
    /\ pc' = [pc EXCEPT ![s] = IF compiled[s] = <<>> THEN "done" ELSE "generating"]
    /\ UNCHANGED <<opt, scripts, labels, compiled, header,
                   hpc, hbytecode, hoffset, hmax_offset, gotos, errors, reads>>

\* the optionals a reference to label l reads have a value
LabelReadable(l) ==
    /\ labels[l].local_offset # nullopt
    /\ (opt.use_local_offsets \/ ~IsLocalScript(labels[l].script))
            => scripts[labels[l].script].offset # nullopt

RECURSIVE SumErrors(_)
SumErrors(ls) ==
    IF ls = <<>> THEN 0
    ELSE generate_code_Label_errors(Head(ls)) + SumErrors(Tail(ls))

Range(q) == {q[i] : i \in DOMAIN q}

\* what generate_code(op, *this) reads of the labels: label, value read, reader
ReadsOf(s, ls) ==
    {[label |-> l, value |-> labels[l].local_offset, by |-> s] : l \in Range(ls)}

\* one turn of the loop of generate(): generate_code(op, *this).
\* A .value() of an empty optional throws; a failed assert aborts (the sink
\* is then discarded, so its bytes are left as they were).
GenerateStep_touch(s) ==
    /\ pc[s] = "generating"
    /\ LET op == compiled[s][pos[s]]
           last == pos[s] = Len(compiled[s])
       IN  \E bytes \in generate_code(op) :
             /\ bytecode' = [bytecode EXCEPT ![s] = @ \o bytes]
             /\ offset' = [offset EXCEPT ![s] = @ + Len(bytes)]
             /\ pos' = [pos EXCEPT ![s] = @ + 1]
             /\ pc' = [pc EXCEPT ![s] = IF last THEN "done" ELSE "generating"]
             /\ labels' = IF op.kind = "LabelDef"
                          THEN [labels EXCEPT ![op.label].local_offset = 0]
                          ELSE labels
    /\ UNCHANGED <<opt, scripts, compiled, header, max_offset,
                   hpc, hbytecode, hoffset, hmax_offset, gotos, errors, reads>>

GenerateStep(s) ==
    /\ pc[s] = "generating"
    /\ LET op == compiled[s][pos[s]]
           ls == LabelsOf(op)
           last == pos[s] = Len(compiled[s])
       IN  /\ reads' = reads \cup ReadsOf(s, ls)
           /\ IF \E l \in Range(ls) : ~LabelReadable(l)
              THEN /\ pc' = [pc EXCEPT ![s] = "threw"]
                   /\ UNCHANGED <<bytecode, offset, pos, errors>>
              ELSE IF \E l \in Range(ls) : ~generate_code_Label_assert(l, s)
              THEN /\ pc' = [pc EXCEPT ![s] = "aborted"]
                   /\ UNCHANGED <<bytecode, offset, pos, errors>>
              ELSE \E bytes \in generate_code(op) :
                     IF offset[s] + Len(bytes) <= max_offset[s]
                     THEN /\ bytecode' = [bytecode EXCEPT ![s] = @ \o bytes]
                          /\ offset' = [offset EXCEPT ![s] = @ + Len(bytes)]
                          /\ pos' = [pos EXCEPT ![s] = @ + 1]
                          /\ errors' = errors + SumErrors(ls)
                          /\ pc' = [pc EXCEPT ![s] =
                                        IF last THEN "done" ELSE "generating"]
                     ELSE /\ pc' = [pc EXCEPT ![s] = "aborted"]
                          /\ UNCHANGED <<bytecode, offset, pos, errors>>
    /\ UNCHANGED <<opt, scripts, labels, compiled, header, max_offset,
                   hpc, hbytecode, hoffset, hmax_offset, gotos>>

(***************************************************************************)
(* CompiledScmHeader::compiled_size and generate_code(CompiledScmHeader)   *)
(***************************************************************************)
CompiledScmHeader_compiled_size_nosa ==
    8 + (header.size_global_vars_space - 8) + 8 + 4 + (24 * (1 + Len(header.models)))
        + 8 + 4 + 4 + 2 + 2 + (4 * header.num_missions)

CompiledScmHeader_compiled_size ==
    IF header.version \in {"Liberty", "Miami"}
    THEN 8 + (header.size_global_vars_space - 8) + 8 + 4 + (24 * (1 + Len(header.models)))
            + 8 + 4 + 4 + 2 + 2 + (4 * header.num_missions)
    ELSE 8 + (header.size_global_vars_space - 8) + 8 + 4 + (24 * (1 + Len(header.models)))
            + 8 + 4 + 4 + 2 + 2 + (4 * header.num_missions) + 4
            + 8 + 4 + 4 + (28 * (1 + header.num_streamed))
            + 8 + 4 + 8 + 4 + 1 + 1 + 2

\* the lambda nextseg_id, for the n-th segment that asks (from 0)
nextseg_id(n) == IF header.version = "SanAndreas" THEN n ELSE 0

\* the lambda goto_rel, called with the cursor at current_offset
goto_rel_target_short(skip_bytes, current_offset) == 7 + skip_bytes + current_offset

goto_rel_target(skip_bytes, current_offset) == 8 + skip_bytes + current_offset

goto_rel(skip_bytes, current_offset) ==
    emplace_u16(2) \o emplace_u8(1)
        \o emplace_i32(goto_rel_target(skip_bytes, current_offset))

target_id ==
    CASE header.version = "Liberty" -> 0
      [] header.version = "Miami" -> 109
      [] header.version = "SanAndreas" -> 115

\* the loop over header.scripts: the vectors missions and streameds ...
missions == SelectSeq(header.scripts, LAMBDA sc : scripts[sc].type = "Mission")

streameds == SelectSeq(header.scripts, LAMBDA sc : scripts[sc].type = "StreamedScript")

RECURSIVE SumSizes(_)
SumSizes(scs) == IF scs = <<>> THEN 0 ELSE scripts[Head(scs)].size + SumSizes(Tail(scs))

RECURSIVE Largest(_, _)
Largest(scs, sofar) ==
    IF scs = <<>> THEN sofar
    ELSE Largest(Tail(scs),
                 IF sofar < scripts[Head(scs)].size THEN scripts[Head(scs)].size
                 ELSE sofar)

\* ... and the sizes it accumulates
main_size_withmissions ==
    CompiledScmHeader_compiled_size
        + SumSizes(SelectSeq(header.scripts,
                             LAMBDA sc : scripts[sc].type # "StreamedScript"))

main_size ==
    CompiledScmHeader_compiled_size
        + SumSizes(SelectSeq(header.scripts,
                             LAMBDA sc : scripts[sc].type \notin {"Mission", "StreamedScript"}))

multifile_size ==
    CompiledScmHeader_compiled_size
        + SumSizes(SelectSeq(header.scripts,
                             LAMBDA sc : scripts[sc].type # "StreamedScript"))

largest_mission_size == Largest(missions, 0)

largest_streamed_size == Largest(streameds, 0)

\* ::toupper over the file stem
ToUpper(name) ==
    [i \in DOMAIN name |-> IF name[i] >= 97 /\ name[i] <= 122 THEN name[i] - 32 ELSE name[i]]

\* the bytes of each segment, emitted with the cursor at at
VariablesSegment_shortfill(at) ==
    goto_rel(header.size_global_vars_space - 8, at)
        \o emplace_i8(target_id)
        \o emplace_fill(header.size_global_vars_space - 8 - 1, 0)

VariablesSegment(at) ==
    goto_rel(header.size_global_vars_space - 8, at)
        \o emplace_i8(target_id)
        \o emplace_fill(header.size_global_vars_space - 8, 0)

RECURSIVE ModelNames(_)
ModelNames(ms) ==
    IF ms = <<>> THEN <<>> ELSE emplace_chars(24, Head(ms)) \o ModelNames(Tail(ms))

ModelsSegment(at) ==
    goto_rel(4 + (24 * (1 + Len(header.models))), at)
        \o emplace_u8(nextseg_id(0))
        \o emplace_u32(1 + Len(header.models))
        \o emplace_chars(24, <<>>)
        \o ModelNames(header.models)

RECURSIVE MissionOffsets(_)
MissionOffsets(ms) ==
    IF ms = <<>> THEN <<>>
    ELSE emplace_i32(scripts[Head(ms)].offset) \o MissionOffsets(Tail(ms))

ScmInfoSegment(at) ==
    goto_rel(4 + 4 + 2 + 2 + (4 * Len(missions))
                + (IF header.version = "SanAndreas" THEN 4 ELSE 0), at)
        \o emplace_u8(nextseg_id(1))
        \o emplace_u32(main_size)
        \o emplace_u32(largest_mission_size)
        \o emplace_u16(Len(missions))
        \o emplace_u16(0)
        \o (IF header.version = "SanAndreas" THEN emplace_u32(0) ELSE <<>>)
        \o MissionOffsets(missions)

RECURSIVE StreamedEntries(_, _)
StreamedEntries(ss, virtual_offset) ==
    IF ss = <<>> THEN <<>>
    ELSE emplace_chars(20, ToUpper(scripts[Head(ss)].name))
            \o emplace_u32(virtual_offset)
            \o emplace_u32(scripts[Head(ss)].size)
            \o StreamedEntries(Tail(ss), virtual_offset + scripts[Head(ss)].size)

StreamedSegment(at) ==
    goto_rel(4 + 4 + (28 * (1 + Len(streameds))), at)
        \o emplace_u8(nextseg_id(2))
        \o emplace_u32(largest_streamed_size)
        \o emplace_u32(1 + Len(streameds))
        \o StreamedEntries(streameds, multifile_size)
        \o emplace_chars(20, <<65, 65, 65>>)
        \o emplace_u32(0)
        \o emplace_u32(8)

UnknownSegment(at) ==
    goto_rel(4, at) \o emplace_u8(nextseg_id(3)) \o emplace_u32(0)

Unknown2Segment(at) ==
    goto_rel(4 + 1 + 1 + 2, at)
        \o emplace_u8(nextseg_id(4))
        \o emplace_u32(header.size_global_vars_space - 8)
        \o emplace_u8(62)
        \o emplace_u8(2)
        \o emplace_u16(0)

SegmentBytes(seg, at) ==
    CASE seg = "Variables" -> VariablesSegment(at)
      [] seg = "Models" -> ModelsSegment(at)
      [] seg = "ScmInfo" -> ScmInfoSegment(at)
      [] seg = "Streamed" -> StreamedSegment(at)
      [] seg = "Unknown" -> UnknownSegment(at)
      [] seg = "Unknown2" -> Unknown2Segment(at)

\* the segment generated after seg: the last three are SanAndreas only
NextSegment(seg) ==
    CASE seg = "Variables" -> "Models"
      [] seg = "Models" -> "ScmInfo"
      [] seg = "ScmInfo" -> (IF header.version = "SanAndreas" THEN "Streamed" ELSE "done")
      [] seg = "Streamed" -> "Unknown"
      [] seg = "Unknown" -> "Unknown2"
      [] seg = "Unknown2" -> "done"

Segments == {"Variables", "Models", "ScmInfo", "Streamed", "Unknown", "Unknown2"}

\* CodeGeneratorData::generate(): setup_buffer(compiled.compiled_size())
HeaderBegin ==
    /\ hpc = "constructed"
    /\ PhaseEOpen
    /\ hoffset' = 0
    /\ hmax_offset' = CompiledScmHeader_compiled_size
    /\ hbytecode' = <<>>
    /\ hpc' = "Variables"
    /\ UNCHANGED <<opt, scripts, labels, compiled, header, pc, pos, bytecode,
                   offset, max_offset, gotos, errors, reads>>

\* one segment of generate_code(header, codegen); gotos records, for each
\* trampoline, where it starts and where the segment ends
HeaderSegment ==
    /\ hpc \in Segments
    /\ LET bytes == SegmentBytes(hpc, hoffset)
       IN  IF hoffset + Len(bytes) <= hmax_offset
           THEN /\ hbytecode' = hbytecode \o bytes
                /\ hoffset' = hoffset + Len(bytes)
                /\ gotos' = Append(gotos, [seg |-> hpc, at |-> hoffset,
                                           end |-> hoffset + Len(bytes)])
                /\ hpc' = NextSegment(hpc)
           ELSE /\ hpc' = "aborted"
                /\ UNCHANGED <<hbytecode, hoffset, gotos>>
    /\ UNCHANGED <<opt, scripts, labels, compiled, header, pc, pos, bytecode,
                   offset, max_offset, hmax_offset, errors, reads>>

(***************************************************************************)
(* Inputs: options, variables, strings, arguments and IR nodes.            *)
(***************************************************************************)
Options ==
    [optimize_zero_floats : BOOLEAN, use_half_float : BOOLEAN,
     use_local_offsets : BOOLEAN, has_text_label_prefix : BOOLEAN]

Chars(n) == [i \in 1..n |-> 65 + (i % 26)]

VarTypes == {"Int", "Float", "TextLabel", "TextLabel16"}

\* an array variable (count 255)
VarPool == {Var(g, t, 3, 12, 255) : g \in BOOLEAN, t \in VarTypes}

IndexPool ==
    {NoIndex, IntIndex(2), VarIndex(Var(TRUE, "Int", 1, 4, nullopt)),
     VarIndex(Var(FALSE, "Int", 6, 24, nullopt))}

FloatPool ==
    {Float(0, 0, 0), Float(1, 0, 0), Float(0, 127, 0), Float(1, 128, 2097152),
     Float(0, 122, 0), Float(0, 139, 0), Float(0, 255, 0), Float(0, 0, 1)}

StringPool ==
    {CompiledString("TextLabel8", Chars(n)) : n \in {0, 5, 8}}
        \cup {CompiledString("TextLabel16", Chars(n)) : n \in {0, 16}}
        \cup {CompiledString("StringVar", Chars(n)) : n \in {0, 3, 127}}
        \cup {CompiledString("String128", Chars(n)) : n \in {0, 5, 128, 130}}

PlainArgPool ==
    {EOAL, Int8(5), Int8(-1), Int16(300), Int16(-2), Int32(70000), Int32(-3)}
        \cup FloatPool
        \cup {CompiledVar(v, i) : v \in VarPool, i \in IndexPool}
        \cup StringPool

ArgPool == PlainArgPool \cup {LabelRef(1), LabelRef(3)}

\* the arguments of the commands with more than one argument
CmdArgPool ==
    {Int8(5), Float(0, 0, 0), LabelRef(1), LabelRef(3),
     CompiledString("TextLabel8", Chars(5))}

CommandPool ==
    {CompiledCommand(78, <<a>>) : a \in ArgPool}
        \cup {CompiledCommand(2, args) : args \in SeqsUpTo(CmdArgPool, MaxArgs)}

HexPool == {CompiledHex(<<>>), CompiledHex(<<170>>), CompiledHex(<<170, 187, 204>>)}

\* every IR node but a label definition
NodePool == ArgPool \cup CommandPool \cup HexPool

Refers(data, l) == \E i \in DOMAIN LabelsOf(data) : LabelsOf(data)[i] = l

OffsetPool == {0, 256}

Script(t, o, n) == [type |-> t, offset |-> o, size |-> nullopt, name |-> n]

NoHeader ==
    [version |-> "Liberty", size_global_vars_space |-> 8, models |-> <<>>,
     scripts |-> <<>>, num_missions |-> 0, num_streamed |-> 0]

\* the state after the construction of the generators
InitGenerators ==
    /\ labels = [l \in LabelIds |-> [script |-> LabelScript[l], local_offset |-> nullopt]]
    /\ pc = [s \in ScriptIds |-> "constructed"]
    /\ pos = [s \in ScriptIds |-> 0]
    /\ bytecode = [s \in ScriptIds |-> <<>>]
    /\ offset = [s \in ScriptIds |-> 0]
    /\ max_offset = [s \in ScriptIds |-> 0]
    /\ hpc = "constructed"
    /\ hbytecode = <<>>
    /\ hoffset = 0
    /\ hmax_offset = 0
    /\ gotos = <<>>
    /\ errors = 0
    /\ reads = {}

(***************************************************************************)
(* SpecNode: scripts of one node (after the definition of the label it may *)
(* refer to), every node variant under every option.                       *)
(***************************************************************************)
\* what may precede the node in script 1: nothing, or the definition of
\* label 1 at local offset 0 or 3
NodePrefixes(data) ==
    IF Refers(data, 1)
    THEN {<<CompiledLabelDef(1)>>, <<CompiledHex(<<170, 187, 204>>), CompiledLabelDef(1)>>}
    ELSE {<<>>, <<CompiledLabelDef(2)>>}

InitNode ==
    /\ InitGenerators
    /\ opt \in Options
    /\ header = NoHeader
    /\ \E data \in NodePool \cup {CompiledLabelDef(1)} :
         /\ \E pre \in (IF data.kind = "LabelDef" THEN {<<>>} ELSE NodePrefixes(data)) :
              compiled = <<pre \o <<data>>,
                           <<CompiledHex(<<170>>), CompiledLabelDef(3)>> >>
         /\ \E t1 \in (IF Refers(data, 1) THEN ScriptTypes ELSE {"Main"}),
              o1 \in (IF Refers(data, 1) THEN OffsetPool ELSE {0}),
              t2 \in (IF Refers(data, 3) THEN ScriptTypes \ {"Mission", "StreamedScript"}
                      ELSE {"Mission"}),
              o2 \in (IF Refers(data, 3) THEN OffsetPool ELSE {512}) :
              scripts = <<Script(t1, o1, <<109, 97, 105, 110>>),
                          Script(t2, o2, <<109, 49>>)>>

NextNode ==
    \/ \E s \in ScriptIds : ResolveScript(s)
    \/ GenerateBegin(1)
    \/ GenerateStep(1)

SpecNode == InitNode /\ [][NextNode]_vars

\* C1: every turn of generate() advances the cursor by compiled_size of the
\* node it generates, under the options in force, and no assert fails.
C1_EmitMatchesSize ==
    [][\A s \in ScriptIds :
         GenerateStep(s) =>
            /\ pc'[s] \in {"generating", "done"}
            /\ offset'[s] - offset[s] = compiled_size(compiled[s][pos[s]])]_vars

\* a float that is zero was generated in its short form, with all bytes written
C1_Witness ==
    /\ pc[1] = "done"
    /\ opt.optimize_zero_floats /\ opt.use_half_float
    /\ compiled[1] = <<CompiledLabelDef(2), Float(1, 0, 0)>>
    /\ offset[1] = 2
    /\ bytecode[1] = <<4, 0>>

(***************************************************************************)
(* Label references (C4, C5, C6), read back from the generated bytes.      *)
(***************************************************************************)
\* the signed little-endian value at positions p+1..p+4 of a buffer
ReadI32(buf, p) ==
    buf[p + 1] + 256 * buf[p + 2] + 65536 * buf[p + 3]
        + 16777216 * (IF buf[p + 4] >= 128 THEN buf[p + 4] - 256 ELSE buf[p + 4])

Last(q) == q[Len(q)]

\* script s is generated and the last thing it generated is a label reference
EndsWithLabel(s) ==
    /\ pc[s] = "done"
    /\ compiled[s] # <<>>
    /\ \/ Last(compiled[s]).kind = "Label"
       \/ /\ Last(compiled[s]).kind = "Command"
          /\ Last(compiled[s]).args # <<>>
          /\ Last(Last(compiled[s]).args).kind = "Label"

LastLabel(s) == Last(LabelsOf(Last(compiled[s])))

\* the 5 bytes of that last reference: its tag and its value
LastRefTag(s) == bytecode[s][Len(bytecode[s]) - 4]

LastRefValue(s) == ReadI32(bytecode[s], Len(bytecode[s]) - 4)

OwnerType(l) == scripts[labels[l].script].type

\* absolute offset = owning script's image offset + local offset
AbsoluteOffset(l) == scripts[labels[l].script].offset + labels[l].local_offset

\* C4: a label reference is tag 0x01 and a 4-byte value: minus the absolute
\* offset under use_local_offsets; otherwise minus the local offset when the
\* owning script is a Mission or StreamedScript (the label then belongs to the
\* script being generated); otherwise plus the absolute offset.
C4_LabelRefModes ==
    \A s \in ScriptIds :
        EndsWithLabel(s) =>
            LET l == LastLabel(s)
            IN  /\ LastRefTag(s) = 1
                /\ opt.use_local_offsets => LastRefValue(s) = 0 - AbsoluteOffset(l)
                /\ (~opt.use_local_offsets /\ OwnerType(l) \in {"Mission", "StreamedScript"})
                      => (LastRefValue(s) = 0 - labels[l].local_offset
                             /\ labels[l].script = s)
                /\ (~opt.use_local_offsets /\ OwnerType(l) \notin {"Mission", "StreamedScript"})
                      => LastRefValue(s) = AbsoluteOffset(l)

\* the option wins over the script type: a mission label at local offset 3 of
\* a script at image offset 256 is referred to as -259
C4_Witness ==
    /\ EndsWithLabel(1)
    /\ opt.use_local_offsets
    /\ OwnerType(LastLabel(1)) = "Mission"
    /\ AbsoluteOffset(LastLabel(1)) = 259
    /\ LastRefValue(1) = -259

\* C5 as stated: under use_local_offsets every label reference is the
\* negation of the label's local offset, whatever the script type and the
\* image offset of the owning script.
C5_NegatedLocalOffset ==
    \A s \in ScriptIds :
        (EndsWithLabel(s) /\ opt.use_local_offsets)
            => LastRefValue(s) = 0 - labels[LastLabel(s)].local_offset

\* C5 amended: under use_local_offsets every label reference is the negation
\* of the label's absolute offset (image offset of the owning script plus
\* local offset), whatever the script type; it is the negated local offset
\* exactly when the owning script's image offset is 0.
C5_NegatedAbsoluteOffset ==
    \A s \in ScriptIds :
        (EndsWithLabel(s) /\ opt.use_local_offsets)
            => LET l == LastLabel(s)
               IN  /\ LastRefTag(s) = 1
                   /\ LastRefValue(s) = 0 - AbsoluteOffset(l)
                   /\ (LastRefValue(s) = 0 - labels[l].local_offset)
                         <=> (scripts[labels[l].script].offset = 0)

\* under use_local_offsets a label of a Main script at image offset 256 is
\* referred to by its negated absolute offset, not its local offset 0
C5_Witness ==
    /\ EndsWithLabel(1)
    /\ opt.use_local_offsets
    /\ OwnerType(LastLabel(1)) = "Main"
    /\ scripts[1].offset = 256
    /\ labels[LastLabel(1)].local_offset = 0
    /\ LastRefValue(1) = -256

\* the offset a reference to l negates, in the two negating modes
Negating(l) ==
    opt.use_local_offsets \/ OwnerType(l) \in {"Mission", "StreamedScript"}

NegatedOffset(l) ==
    IF opt.use_local_offsets THEN AbsoluteOffset(l) ELSE labels[l].local_offset

\* C6: generating a node with one label reference reports exactly one error
\* when the mode negates and the offset to negate is 0, and none otherwise;
\* in both cases generation goes on and the cursor advances by the node's
\* full size (5 for the reference: tag 0x01 and, for offset 0, four zero bytes).
C6_ZeroOffsetDiagnostic ==
    [][\A s \in ScriptIds :
         (GenerateStep(s) /\ Len(LabelsOf(compiled[s][pos[s]])) = 1) =>
            LET op == compiled[s][pos[s]]
                l == LabelsOf(op)[1]
                zero == Negating(l) /\ NegatedOffset(l) = 0
            IN  /\ errors' - errors = (IF zero THEN 1 ELSE 0)
                /\ pc'[s] \in {"generating", "done"}
                /\ pos'[s] = pos[s] + 1
                /\ offset'[s] - offset[s] = compiled_size(op)
                /\ op.kind = "Label" =>
                      /\ offset'[s] - offset[s] = 5
                      /\ bytecode'[s][offset[s] + 1] = 1
                      /\ zero => ReadI32(bytecode'[s], offset[s] + 1) = 0]_vars

\* a mission label at local offset 0 was referred to: one error, and the
\* five bytes 01 00 00 00 00 were still written
C6_Witness ==
    /\ pc[1] = "done"
    /\ ~opt.use_local_offsets
    /\ scripts[1].type = "Mission"
    /\ compiled[1] = <<CompiledLabelDef(1), LabelRef(1)>>
    /\ errors = 1
    /\ bytecode[1] = <<1, 0, 0, 0, 0>>

(***************************************************************************)
(* Spec: the whole pipeline. Phase R resolves the scripts one after the    *)
(* other; in Phase E the script generators and the header generator run    *)
(* interleaved, one IR node or one header segment at a time.               *)
(***************************************************************************)
Script1Pool ==
    {CompiledLabelDef(1), CompiledLabelDef(2),
     CompiledCommand(2, <<LabelRef(1), Float(0, 0, 0)>>),
     CompiledCommand(79, <<LabelRef(3)>>)}

Script2Programs ==
    {<<>>,
     <<CompiledString("TextLabel8", Chars(5)), CompiledLabelDef(3)>>,
     <<CompiledCommand(2, <<LabelRef(2)>>), CompiledLabelDef(3)>>}

DefinedIn(ir) == {ir[i].label : i \in {j \in DOMAIN ir : ir[j].kind = "LabelDef"}}

ReferredIn(ir) == UNION {Range(LabelsOf(ir[i])) : i \in DOMAIN ir}

\* what the compiler guarantees of the IR: a label is defined once, in its
\* own script; a referred label is defined; a label of a Mission or
\* StreamedScript is referred to from its own script only
WellFormed(irs, types) ==
    /\ \A s \in ScriptIds :
         /\ \A i, j \in DOMAIN irs[s] :
              (irs[s][i].kind = "LabelDef" /\ irs[s][j].kind = "LabelDef"
                  /\ irs[s][i].label = irs[s][j].label) => i = j
         /\ \A l \in DefinedIn(irs[s]) : LabelScript[l] = s
         /\ \A l \in ReferredIn(irs[s]) :
              /\ l \in DefinedIn(irs[LabelScript[l]])
              /\ (LabelScript[l] # s)
                    => types[LabelScript[l]] \notin {"Mission", "StreamedScript"}

NumOf(type) == Cardinality({s \in ScriptIds : scripts[s].type = type})

\* the options that change what this pipeline's nodes occupy or what a
\* label reference holds (SpecNode has every combination of the four)
PipelineOptions ==
    {o \in Options : o.has_text_label_prefix /\ ~o.use_half_float}

Init ==
    /\ InitGenerators
    /\ opt \in PipelineOptions
    /\ \E ir1 \in SeqsUpTo(Script1Pool, MaxIRLen), ir2 \in Script2Programs,
         t1 \in {"Main", "Mission"}, t2 \in {"Subscript"} :
         /\ WellFormed(<<ir1, ir2>>, <<t1, t2>>)
         /\ compiled = <<ir1, ir2>>
         /\ scripts = <<Script(t1, 64, <<109, 97, 105, 110>>),
                        Script(t2, 256, <<109, 49>>)>>
    /\ header = [version |-> IF NumOf("Mission") > 0 THEN "Miami" ELSE "Liberty",
                 size_global_vars_space |-> 8, models |-> <<>>,
                 scripts |-> <<1, 2>>, num_missions |-> NumOf("Mission"),
                 num_streamed |-> NumOf("StreamedScript")]

Next ==
    \/ \E s \in ScriptIds : ResolveScript(s)
    \/ \E s \in ScriptIds : GenerateBegin(s)
    \/ \E s \in ScriptIds : GenerateStep(s)
    \/ HeaderBegin
    \/ HeaderSegment

Spec == Init /\ [][Next]_vars

(***************************************************************************)
(* Label resolution and script generation (C2, C3).                        *)
(***************************************************************************)
\* the sum of compiled_size over the first n nodes of ir, label definitions
\* left out or not
RECURSIVE SizeOfFirst(_, _, _)
SizeOfFirst(ir, n, withDefs) ==
    IF n = 0 THEN 0
    ELSE SizeOfFirst(ir, n - 1, withDefs)
            + (IF withDefs \/ ir[n].kind # "LabelDef" THEN compiled_size(ir[n]) ELSE 0)

NotLabelDef == FALSE

AnyNode == TRUE

Resolved(s) == pc[s] # "constructed"

\* C2: once compute_labels has run on a script, each label defined in it
\* holds the sum of compiled_size over the nodes other than label definitions
\* that precede its definition, and the value returned (stored as the
\* script's size) is the sum of compiled_size over all nodes; so two adjacent
\* definitions get the same offset and an empty script returns 0.
C2_LabelOffsets ==
    \A s \in ScriptIds :
        Resolved(s) =>
            /\ \A i \in DOMAIN compiled[s] :
                 compiled[s][i].kind = "LabelDef" =>
                    labels[compiled[s][i].label].local_offset
                        = SizeOfFirst(compiled[s], i - 1, NotLabelDef)
            /\ scripts[s].size = SizeOfFirst(compiled[s], Len(compiled[s]), AnyNode)
            /\ \A i \in DOMAIN compiled[s] :
                 (i > 1 /\ compiled[s][i].kind = "LabelDef"
                        /\ compiled[s][i - 1].kind = "LabelDef")
                    => labels[compiled[s][i].label].local_offset
                          = labels[compiled[s][i - 1].label].local_offset
            /\ compiled[s] = <<>> => scripts[s].size = 0

\* two adjacent definitions after a command both got the command's size, and
\* the other script is empty and of size 0
C2_Witness ==
    /\ Resolved(1) /\ Resolved(2)
    /\ Len(compiled[1]) >= 3
    /\ compiled[1][1].kind = "Command"
    /\ compiled[1][2] = CompiledLabelDef(2)
    /\ compiled[1][3] = CompiledLabelDef(1)
    /\ labels[1].local_offset = labels[2].local_offset
    /\ labels[1].local_offset > 0
    /\ compiled[2] = <<>>
    /\ scripts[2].size = 0

\* C3: while generate() runs the cursor stays within the capacity (no
\* emplace assert fails) and when it returns the cursor is the capacity:
\* every byte of the buffer is written.
C3_CursorWithinCapacity ==
    \A s \in ScriptIds :
        /\ pc[s] \notin {"aborted", "threw"}
        /\ pc[s] \in {"generating", "done"} =>
              /\ max_offset[s] = scripts[s].size
              /\ offset[s] <= max_offset[s]
              /\ Len(bytecode[s]) = offset[s]
        /\ pc[s] = "done" => offset[s] = max_offset[s]

\* a script of three nodes, with a float under optimize_zero_floats, filled
\* its buffer exactly
C3_Witness ==
    /\ pc[1] = "done"
    /\ opt.optimize_zero_floats
    /\ Len(compiled[1]) = MaxIRLen
    /\ \E i \in DOMAIN compiled[1] : compiled[1][i].kind = "Command"
    /\ offset[1] = max_offset[1]
    /\ offset[1] >= 9

(***************************************************************************)
(* The two phases (C7, C8).                                                *)
(***************************************************************************)
\* C7: under the two-phase schedule every label offset a generator has read
\* was set when it was read, and is the value the label holds from then on,
\* to the end of the run; labels of other scripts included.
C7_OffsetsSetBeforeRead ==
    \A r \in reads :
        /\ r.value # nullopt
        /\ labels[r.label].local_offset = r.value

\* script 2 has read the offset of a label script 1 owns, and all is done
C7_Witness ==
    /\ \A s \in ScriptIds : pc[s] = "done"
    /\ \E r \in reads : r.by = 2 /\ labels[r.label].script = 1 /\ r.value > 0

\* the byte strings a generator produces for ops when it runs alone
RECURSIVE SerialBytes(_)
SerialBytes(ops) ==
    IF ops = <<>> THEN {<<>>}
    ELSE {b \o r : b \in generate_code(Head(ops)), r \in SerialBytes(Tail(ops))}

RECURSIVE SerialHeader(_, _)
SerialHeader(seg, sofar) ==
    IF seg = "done" THEN sofar
    ELSE SerialHeader(NextSegment(seg), sofar \o SegmentBytes(seg, Len(sofar)))

EmitterStep(s) == GenerateBegin(s) \/ GenerateStep(s)

HeaderStep == HeaderBegin \/ HeaderSegment

\* what C8 says of one step: a step of an emitter leaves the labels, the
\* scripts (offset and size), the options and every other emitter's buffer
\* and cursor as they were
StepTouchesOwnSinkOnly ==
    /\ \A s \in ScriptIds :
         EmitterStep(s) =>
            /\ UNCHANGED <<labels, scripts, opt, hbytecode, hoffset>>
            /\ \A t \in ScriptIds \ {s} :
                 bytecode'[t] = bytecode[t] /\ offset'[t] = offset[t]
    /\ HeaderStep => UNCHANGED <<labels, scripts, opt, bytecode, offset>>

\* what C8 says of the result: the bytes an emitter ends with are those it
\* produces when the emitters run one after another
FinalBytesAreSerial ==
    /\ \A s \in ScriptIds : pc[s] = "done" => SerialBytes(compiled[s]) = {bytecode[s]}
    /\ hpc = "done" => hbytecode = SerialHeader("Variables", <<>>)

\* C8: in Phase E every step of a script emitter or of the header emitter
\* changes only its own buffer and cursor, and so, whatever the interleaving,
\* each emitter ends with the bytes it produces when run alone.
C8_EmittersIndependent ==
    /\ [][StepTouchesOwnSinkOnly]_vars
    /\ []FinalBytesAreSerial

\* the three emitters are all in the middle of their work at once
C8_Witness ==
    /\ pc[1] = "generating" /\ offset[1] > 0
    /\ pc[2] = "generating" /\ offset[2] > 0
    /\ hpc = "ScmInfo" /\ hoffset > 0

(***************************************************************************)
(* SpecHeader: the header generator over header descriptors. The fields    *)
(* num_missions and num_streamed are inputs of their own, beside the       *)
(* script list.                                                            *)
(***************************************************************************)
ModelNamePool == {<<99, 97, 114>>, Chars(23)}

\* size_global_vars_space >= 8
GlobalsPool == {8 + k : k \in 0..MaxGlobalsExtra} \cup {16}

\* the script lists, with the types and the IR (so the sizes) of their scripts
HeaderScriptLists == {<<>>, <<1>>, <<1, 2>>, <<2, 1>>}

InitHeader ==
    /\ InitGenerators
    /\ opt = [optimize_zero_floats |-> FALSE, use_half_float |-> FALSE,
              use_local_offsets |-> FALSE, has_text_label_prefix |-> FALSE]
    /\ \E list \in HeaderScriptLists :
         /\ \E t1 \in (IF list = <<>> THEN {"Main"} ELSE ScriptTypes),
              t2 \in (IF Len(list) < 2 THEN {"Mission"} ELSE {"Mission", "StreamedScript"}),
              ir1 \in (IF list = <<>> THEN {<<>>}
                       ELSE {<<>>, <<CompiledHex(Chars(7))>>}) :
              /\ scripts = <<Script(t1, 64, <<109, 97, 105, 110>>),
                             Script(t2, 256, <<109, 49>>)>>
              /\ compiled = <<ir1, <<CompiledHex(Chars(12))>> >>
         /\ \E v \in Versions, g \in GlobalsPool,
              ms \in SeqsUpTo(ModelNamePool, MaxModels),
              nm \in 0..Cardinality(ScriptIds), ns \in 0..Cardinality(ScriptIds) :
              header = [version |-> v, size_global_vars_space |-> g, models |-> ms,
                        scripts |-> list, num_missions |-> nm, num_streamed |-> ns]

NextHeader ==
    \/ \E s \in ScriptIds : ResolveScript(s)
    \/ HeaderBegin
    \/ HeaderSegment

SpecHeader == InitHeader /\ [][NextHeader]_vars

\* the descriptor's counts are those of its script list (num_streamed is
\* used by the SanAndreas dialect only)
CountsMatchList ==
    /\ header.num_missions = Len(missions)
    /\ header.version = "SanAndreas" => header.num_streamed = Len(streameds)

HeaderFinished == hpc \in {"done", "aborted"}

\* the header generator wrote exactly compiled_size() bytes and no assert failed
HeaderFillsBuffer ==
    /\ hpc = "done"
    /\ hmax_offset = CompiledScmHeader_compiled_size
    /\ hoffset = hmax_offset
    /\ Len(hbytecode) = hmax_offset

C10_TrampolineTargets ==
    \A i \in DOMAIN gotos :
        /\ SubSeq(hbytecode, gotos[i].at + 1, gotos[i].at + 3) = <<2, 0, 1>>
        /\ ReadI32(hbytecode, gotos[i].at + 3) = gotos[i].end
        /\ i < Len(gotos) => gotos[i].end = gotos[i + 1].at
        /\ i = Len(gotos) => gotos[i].end = hoffset
        /\ (i = Len(gotos) /\ hpc = "done") =>
                /\ gotos[i].end = Len(hbytecode)
                /\ CountsMatchList => gotos[i].end = CompiledScmHeader_compiled_size

\* all six segments of a SanAndreas header with a model, a mission and a
\* streamed script are generated; the last target is the header's size
C10_Witness ==
    /\ hpc = "done"
    /\ Len(gotos) = 6
    /\ Len(header.models) = 1 /\ Len(missions) = 1 /\ Len(streameds) = 1
    /\ gotos[1].at = 0
    /\ ReadI32(hbytecode, gotos[6].at + 3) = CompiledScmHeader_compiled_size

(***************************************************************************)
(* The Variables segment.                                                  *)
(***************************************************************************)
\* the trampoline is the 7 bytes of goto_rel: u16 opcode, u8 tag, i32 target
TrampolineSize == Len(goto_rel(0, 0))

VariablesDone == gotos # <<>> /\ gotos[1].seg = "Variables"

\* the body of the Variables segment: what follows its trampoline, up to
\* the trampoline's target
VariablesBody == SubSeq(hbytecode, gotos[1].at + TrampolineSize + 1, gotos[1].end)

\* C11 as stated: the body of the Variables segment is the target_id byte
\* followed by exactly size_global_vars_space - 8 - 1 zero bytes, so
\* size_global_vars_space - 8 bytes in total.
C11_VariablesBodyAsStated ==
    VariablesDone =>
        /\ Len(VariablesBody) = header.size_global_vars_space - 8
        /\ VariablesBody
             = emplace_i8(target_id) \o Zeros(header.size_global_vars_space - 8 - 1)

\* C11 amended: the body of the Variables segment is the target_id byte
\* followed by exactly size_global_vars_space - 8 zero bytes, so
\* size_global_vars_space - 7 bytes in total; with the 7-byte trampoline the
\* segment is size_global_vars_space bytes, and the zeros are the
\* size_global_vars_space - 8 bytes that follow its first 8.
C11_VariablesBody ==
    VariablesDone =>
        /\ gotos[1].at = 0
        /\ Len(VariablesBody) = header.size_global_vars_space - 7
        /\ VariablesBody
             = emplace_i8(target_id) \o Zeros(header.size_global_vars_space - 8)
        /\ gotos[1].end = header.size_global_vars_space
        /\ SubSeq(hbytecode, 9, gotos[1].end) = Zeros(header.size_global_vars_space - 8)

\* a Miami header with size_global_vars_space 16: 'm' and 8 zero bytes
C11_Witness ==
    /\ VariablesDone
    /\ header.version = "Miami"
    /\ header.size_global_vars_space = 16
    /\ VariablesBody = <<109, 0, 0, 0, 0, 0, 0, 0, 0>>

(***************************************************************************)
(* The sizes written in the SCM info and streamed scripts segments, read   *)
(* back from the generated bytes.                                          *)
(***************************************************************************)
\* positions in header.scripts of the scripts whose type is in types
ScriptsOfType(types) == {i \in DOMAIN header.scripts : scripts[header.scripts[i]].type \in types}

RECURSIVE SizeSum(_)
\* the sum of the sizes of the scripts at the positions P of header.scripts
SizeSum(P) ==
    IF P = {} THEN 0
    ELSE LET i == CHOOSE x \in P : TRUE
         IN  scripts[header.scripts[i]].size + SizeSum(P \ {i})

\* the maximum of the sizes of the scripts at the positions P; 0 for none
SizeMax(P) ==
    IF P = {} THEN 0
    ELSE LET sizes == {scripts[header.scripts[i]].size : i \in P}
         IN  CHOOSE m \in sizes : \A n \in sizes : n <= m

\* the entry of gotos of segment seg, once that segment is generated
HasSegment(seg) == \E i \in DOMAIN gotos : gotos[i].seg = seg

SegmentAt(seg) == (CHOOSE i \in DOMAIN gotos : gotos[i].seg = seg)

\* the fields of a segment start after the trampoline and the segment id
FieldsAt(seg) == gotos[SegmentAt(seg)].at + TrampolineSize + 1

\* the virtual_offset field of the k-th streamed entry (from 1)
VirtualOffsetField(k) == ReadI32(hbytecode, FieldsAt("Streamed") + 8 + 28 * (k - 1) + 20)

\* C12: main_size is the header size plus the sizes of the scripts that are
\* neither Mission nor StreamedScript; multifile_size, the first streamed
\* virtual_offset (each later one adds the size of the entry before it), is
\* the header size plus the sizes of all scripts that are not
\* StreamedScript; largest_mission_size and largest_streamed_size are the
\* largest size among the Mission and among the StreamedScript scripts, 0
\* for none.
C12_HeaderSizes ==
    /\ HasSegment("ScmInfo") =>
         /\ ReadI32(hbytecode, FieldsAt("ScmInfo"))
              = CompiledScmHeader_compiled_size
                  + SizeSum(DOMAIN header.scripts
                              \ ScriptsOfType({"Mission", "StreamedScript"}))
         /\ ReadI32(hbytecode, FieldsAt("ScmInfo") + 4) = SizeMax(ScriptsOfType({"Mission"}))
    /\ HasSegment("Streamed") =>
         /\ ReadI32(hbytecode, FieldsAt("Streamed"))
              = SizeMax(ScriptsOfType({"StreamedScript"}))
         /\ \A k \in 1..Len(streameds) :
              VirtualOffsetField(k)
                = CompiledScmHeader_compiled_size
                    + SizeSum(DOMAIN header.scripts \ ScriptsOfType({"StreamedScript"}))
                    + SizeSum({i \in ScriptsOfType({"StreamedScript"}) :
                                 Cardinality({j \in ScriptsOfType({"StreamedScript"}) : j <= i}) < k})

\* a SanAndreas header over a mission of 7 bytes and a streamed script of 12:
\* main_size is the header size alone, the streamed script is at header size + 7
C12_Witness ==
    /\ hpc = "done"
    /\ header.version = "SanAndreas"
    /\ header.scripts = <<1, 2>>
    /\ scripts[1].type = "Mission" /\ scripts[1].size = 7
    /\ scripts[2].type = "StreamedScript" /\ scripts[2].size = 12
    /\ ReadI32(hbytecode, FieldsAt("ScmInfo")) = CompiledScmHeader_compiled_size
    /\ ReadI32(hbytecode, FieldsAt("ScmInfo") + 4) = 7
    /\ ReadI32(hbytecode, FieldsAt("Streamed")) = 12
    /\ VirtualOffsetField(1) = CompiledScmHeader_compiled_size + 7

(***************************************************************************)
(* The encodings of a float, read back from the generated bytes.           *)
(***************************************************************************)
\* op is a float, or a command whose only argument is a float
HasOneFloat(op) ==
    \/ op.kind = "float"
    \/ op.kind = "Command" /\ Len(op.args) = 1 /\ op.args[1].kind = "float"

FloatOf(op) == IF op.kind = "float" THEN op.fvalue ELSE op.args[1].fvalue

\* what the turn of generate() of script 1 appended, after the opcode if
\* the node is a command
FloatBytes ==
    LET new == SubSeq(bytecode'[1], Len(bytecode[1]) + 1, Len(bytecode'[1]))
    IN  IF compiled[1][pos[1]].kind = "Command" THEN SubSeq(new, 3, Len(new)) ELSE new

\* the signed little-endian value at positions p+1..p+2 of a buffer
ReadI16(buf, p) ==
    buf[p + 1] + 256 * (IF buf[p + 2] >= 128 THEN buf[p + 2] - 256 ELSE buf[p + 2])

\* h is value * 16 rounded toward zero, value being
\* (-1)^s * (2^23 + m) * 2^(e - 150) (a denormal or a value below 1/16 gives 0)
IsTruncatedTimes16(h, f) ==
    LET mag == IF h < 0 THEN 0 - h ELSE h
    IN  /\ (h < 0 => f.s = 1) /\ (h > 0 => f.s = 0)
        /\ IF f.e < 123 THEN mag = 0
           ELSE /\ mag * Pow2(146 - f.e) <= 8388608 + f.m
                /\ 8388608 + f.m < (mag + 1) * Pow2(146 - f.e)

\* value * 16 rounded toward zero fits an int16 (finite, below 2048 in size)
FitsInt16Times16(f) == f.e < 138

\* the float whose IEEE-754 binary32 bits are the 4 bytes at p+1..p+4
DecodeFloat(buf, p) ==
    [s |-> buf[p + 4] \div 128,
     e |-> 2 * (buf[p + 4] % 128) + (buf[p + 3] \div 128),
     m |-> buf[p + 1] + 256 * buf[p + 2] + 65536 * (buf[p + 3] % 128)]

\* C13: a float is generated in exactly one form: tag 0x04 and a zero byte
\* when optimize_zero_floats is set and the value equals 0.0; otherwise,
\* when use_half_float is set, tag 0x06 and 2 bytes, the int16 of value * 16
\* (rounded toward zero, whenever that fits an int16); otherwise tag 0x06
\* and the 4 bytes of the IEEE-754 bits. So a zero with optimize_zero_floats
\* off and use_half_float on takes the half form, and optimize_zero_floats
\* changes nothing for a non-zero float.
C13_FloatEncoding ==
    [][(pc[1] = "generating" /\ HasOneFloat(compiled[1][pos[1]]) /\ GenerateStep(1)) =>
         LET f == FloatOf(compiled[1][pos[1]])
             zero == f.e = 0 /\ f.m = 0
         IN  /\ pc'[1] \in {"generating", "done"}
             /\ IF opt.optimize_zero_floats /\ zero
                THEN FloatBytes = <<4, 0>>
                ELSE IF opt.use_half_float
                THEN /\ Len(FloatBytes) = 3
                     /\ FloatBytes[1] = 6
                     /\ FitsInt16Times16(f) => IsTruncatedTimes16(ReadI16(FloatBytes, 1), f)
                     /\ zero => FloatBytes = <<6, 0, 0>>
                ELSE /\ Len(FloatBytes) = 5
                     /\ FloatBytes[1] = 6
                     /\ DecodeFloat(FloatBytes, 1) = f]_vars

\* command 0x0002 with the argument 0.0 under optimize_zero_floats and
\* use_half_float: 02 00 04 00
C13_Witness ==
    /\ pc[1] = "done"
    /\ opt.optimize_zero_floats /\ opt.use_half_float
    /\ compiled[1] = <<CompiledCommand(2, <<Float(0, 0, 0)>>)>>
    /\ bytecode[1] = <<2, 0, 4, 0>>

====
